---- MODULE Spec2Model ----
(***************************************************************************)
(* Model of headlines/umba_harvest.py: the headline harvester (feed        *)
(* extraction with HTML fallback) and its append-only, deduplicated CSV    *)
(* log.                                                                    *)
(*                                                                         *)
(* Strings are sequences of tokens.  The four characters the CSV format    *)
(* treats specially (comma, double quote, CR, LF) and the blank are single *)
(* tokens; every other token stands for a run of ordinary characters.      *)
(*                                                                         *)
(* A loop that builds a list is written as a selection followed by a       *)
(* function constructor over 1..n; "\o <<>>" turns the result into a       *)
(* tuple.                                                                  *)
(***************************************************************************)
EXTENDS Integers, Sequences, FiniteSets, TLC

VARIABLES
    csvFile,      \* MASTER_CSV on disk
    calls,        \* the calls of append_entries_to_csv made so far
    log0,         \* MASTER_CSV as it was when the program started
    pc,           \* position in main
    args,         \* the parsed command line
    today,        \* dt.date.today()
    urls,         \* the list read_outlet_urls returned
    idx,          \* position of the loop of harvest_all_outlets in urls
    all_entries,  \* the records harvested so far
    visits        \* one record per call of harvest_one_url

vars == <<csvFile, calls, log0, pc, args, today, urls, idx, all_entries, visits>>

mainVars == <<log0, pc, args, today, urls, idx, all_entries, visits>>

COMMA == ","
QUOTE == "\""
CR == "\r"
LF == "\n"
SPACE == " "

\* ---------------------------------------------------------------------
\* Bounds
\* ---------------------------------------------------------------------
MaxCalls == 2
MaxEntries == 2
MaxOutletLines == 2
SurplusItems == 2

\* ---------------------------------------------------------------------
\* Generic sequence helpers
\* ---------------------------------------------------------------------
Min(a, b) == IF a < b THEN a ELSE b

Take(s, n) == SubSeq(s, 1, Min(n, Len(s)))

Drop(s, n) == SubSeq(s, Min(n, Len(s)) + 1, Len(s))

IsPrefix(p, s) == Len(p) <= Len(s) /\ SubSeq(s, 1, Len(p)) = p

Contains(s, c) == \E i \in 1..Len(s) : s[i] = c

\* ss[lo] \o ... \o ss[hi], by halving
RECURSIVE ConcatRange(_, _, _)
ConcatRange(ss, lo, hi) ==
    IF lo > hi THEN <<>>
    ELSE IF lo = hi THEN ss[lo]
    ELSE LET mid == (lo + hi) \div 2
         IN ConcatRange(ss, lo, mid) \o ConcatRange(ss, mid + 1, hi)

SeqsUpTo(S, n) == UNION { [1..k -> S] : k \in 0..n }

\* ---------------------------------------------------------------------
\* The log file (MASTER_CSV): absent, or a sequence of characters
\* ---------------------------------------------------------------------
NoFile == [exists |-> FALSE, content |-> <<>>]

\* str.replace("\"", "\"\""): every double quote is doubled
RECURSIVE DoubleQuotes(_)
DoubleQuotes(s) ==
    IF s = <<>> THEN <<>>
    ELSE (IF Head(s) = QUOTE THEN <<QUOTE, QUOTE>> ELSE <<Head(s)>>)
         \o DoubleQuotes(Tail(s))

\* csv.writer, excel dialect, QUOTE_MINIMAL: a field is quoted when it holds
\* the delimiter, the quote character or a character of the line terminator
NeedsQuote(field) ==
    \E i \in 1..Len(field) : field[i] \in {COMMA, QUOTE, CR, LF}

CsvFieldRaw(field) ==
    IF NeedsQuote(field) THEN <<QUOTE>> \o field \o <<QUOTE>> ELSE field

CsvField(field) ==
    IF NeedsQuote(field)
    THEN <<QUOTE>> \o DoubleQuotes(field) \o <<QUOTE>>
    ELSE field

\* writer.writerow(row): fields joined by commas, terminated by CR LF
writerow(row) ==
    CsvField(row[1]) \o <<COMMA>> \o CsvField(row[2]) \o <<COMMA>>
    \o CsvField(row[3]) \o <<COMMA>> \o CsvField(row[4]) \o <<CR, LF>>

\* the "canonical line representation for dedupe"
CanonicalLine(date, domain, title, link) ==
    date \o <<COMMA>> \o domain \o <<COMMA>>
    \o <<QUOTE>> \o DoubleQuotes(title) \o <<QUOTE>> \o <<COMMA>>
    \o <<QUOTE>> \o link \o <<QUOTE>>

\* line.rstrip("\n")
RECURSIVE RStripLF(_)
RStripLF(line) ==
    IF line # <<>> /\ line[Len(line)] = LF
    THEN RStripLF(SubSeq(line, 1, Len(line) - 1))
    ELSE line

\* iteration over a text file opened with newline="": lines end at LF, CR or
\* CR LF and keep their line ending
RECURSIVE FileLines(_, _, _)
FileLines(content, i, cur) ==
    IF i > Len(content)
    THEN (IF cur = <<>> THEN <<>> ELSE <<cur>>)
    ELSE IF content[i] = LF
    THEN <<cur \o <<LF>>>> \o FileLines(content, i + 1, <<>>)
    ELSE IF content[i] = CR
    THEN (IF i < Len(content) /\ content[i + 1] = LF
          THEN <<cur \o <<CR, LF>>>> \o FileLines(content, i + 2, <<>>)
          ELSE <<cur \o <<CR>>>> \o FileLines(content, i + 1, <<>>))
    ELSE FileLines(content, i + 1, cur \o <<content[i]>>)

load_existing_lines(file) ==
    IF ~file.exists THEN {}
    ELSE LET lines == FileLines(file.content, 1, <<>>)
         IN { RStripLF(lines[k]) : k \in 1..Len(lines) }

\* the test of the loop of append_entries_to_csv for entry i: its line is
\* neither in the lines loaded from the file nor the line of an earlier entry
\* of this call (every entry written adds its line to existing_lines, and an
\* entry skipped had its line in existing_lines already)
IsNewLineNoAdd(lines, existing_lines, i) == lines[i] \notin existing_lines

IsNewLine(lines, existing_lines, i) ==
    /\ lines[i] \notin existing_lines
    /\ \A j \in 1..(i - 1) : lines[j] # lines[i]

\* path.open("a"): the file is created when absent, and everything written
\* goes after its present content
OpenTruncate(file, out) == [exists |-> TRUE, content |-> out]

OpenAppend(file, out) == [exists |-> TRUE, content |-> file.content \o out]

append_entries_to_csv(file, entries) ==
    LET existing_lines == load_existing_lines(file)
        lines == [i \in 1..Len(entries) |->
                     CanonicalLine(entries[i][1], entries[i][2],
                                   entries[i][3], entries[i][4])] \o <<>>
        marked == [i \in 1..Len(entries) |->
                      [row |-> entries[i], new |-> IsNewLine(lines, existing_lines, i)]]
        written == SelectSeq(marked, LAMBDA m : m.new)
        out == ConcatRange([i \in 1..Len(written) |-> writerow(written[i].row)] \o <<>>,
                           1, Len(written))
    IN [file |-> OpenAppend(file, out), new_count |-> Len(written)]

\* ---------------------------------------------------------------------
\* Reading a comma-separated file back (csv.reader, excel dialect)
\* ---------------------------------------------------------------------
RECURSIVE ParseFrom(_, _, _, _, _, _)
ParseFrom(s, i, st, field, row, rows) ==
    IF i > Len(s)
    THEN (IF st = "start_record" THEN rows ELSE Append(rows, Append(row, field)))
    ELSE LET c == s[i]
             eol == IF c = CR /\ i < Len(s) /\ s[i + 1] = LF THEN i + 2 ELSE i + 1
         IN CASE st \in {"start_record", "start_field"} ->
                 ( IF c \in {CR, LF}
                   THEN ParseFrom(s, eol, "start_record", <<>>, <<>>,
                                  Append(rows, IF st = "start_record" THEN <<>>
                                               ELSE Append(row, <<>>)))
                   ELSE IF c = QUOTE
                   THEN ParseFrom(s, i + 1, "in_quoted", <<>>, row, rows)
                   ELSE IF c = COMMA
                   THEN ParseFrom(s, i + 1, "start_field", <<>>, Append(row, <<>>), rows)
                   ELSE ParseFrom(s, i + 1, "in_field", <<c>>, row, rows) )
              [] st = "in_field" ->
                 ( IF c \in {CR, LF}
                   THEN ParseFrom(s, eol, "start_record", <<>>, <<>>,
                                  Append(rows, Append(row, field)))
                   ELSE IF c = COMMA
                   THEN ParseFrom(s, i + 1, "start_field", <<>>, Append(row, field), rows)
                   ELSE ParseFrom(s, i + 1, "in_field", Append(field, c), row, rows) )
              [] st = "in_quoted" ->
                 ( IF c = QUOTE
                   THEN ParseFrom(s, i + 1, "quote_in_quoted", field, row, rows)
                   ELSE ParseFrom(s, i + 1, "in_quoted", Append(field, c), row, rows) )
              [] st = "quote_in_quoted" ->
                 ( IF c = QUOTE
                   THEN ParseFrom(s, i + 1, "in_quoted", Append(field, QUOTE), row, rows)
                   ELSE IF c \in {CR, LF}
                   THEN ParseFrom(s, eol, "start_record", <<>>, <<>>,
                                  Append(rows, Append(row, field)))
                   ELSE IF c = COMMA
                   THEN ParseFrom(s, i + 1, "start_field", <<>>, Append(row, field), rows)
                   ELSE ParseFrom(s, i + 1, "in_field", Append(field, c), row, rows) )

ParseCsv(content) == ParseFrom(content, 1, "start_record", <<>>, <<>>, <<>>)

\* ---------------------------------------------------------------------
\* URLs (urllib.parse).  A URL is a string whose tokens are a scheme with
\* its colon, slashes, and names.
\* ---------------------------------------------------------------------
SLASH == "/"
HTTP == "http:"
HTTPS == "https:"
MAILTO == "mailto:"
DOTDOT == ".."

Schemes == {HTTP, HTTPS, MAILTO}
uses_relative == {HTTP, HTTPS}
uses_netloc == {HTTP, HTTPS}

\* index of the first slash of s at or after position i, or Len(s) + 1
RECURSIVE FirstSlash(_, _)
FirstSlash(s, i) ==
    IF i > Len(s) \/ s[i] = SLASH THEN i ELSE FirstSlash(s, i + 1)

\* urlparse(url, scheme=default)
urlparse(url, default) ==
    LET hasScheme == url # <<>> /\ Head(url) \in Schemes
        scheme == IF hasScheme THEN Head(url) ELSE default
        rest == IF hasScheme THEN Tail(url) ELSE url
        hasNetloc == Len(rest) >= 2 /\ rest[1] = SLASH /\ rest[2] = SLASH
        stop == FirstSlash(rest, 3)
    IN [scheme |-> scheme,
        netloc |-> IF hasNetloc THEN SubSeq(rest, 3, stop - 1) ELSE <<>>,
        path |-> IF hasNetloc THEN SubSeq(rest, stop, Len(rest)) ELSE rest]

urlunparse(scheme, netloc, path) ==
    LET withNetloc ==
            IF netloc # <<>> \/ (scheme \in uses_netloc /\ Take(path, 2) # <<SLASH, SLASH>>)
            THEN <<SLASH, SLASH>> \o netloc
                 \o (IF path # <<>> /\ Head(path) # SLASH THEN <<SLASH>> ELSE <<>>)
                 \o path
            ELSE path
    IN (IF scheme # "" THEN <<scheme>> ELSE <<>>) \o withNetloc

\* path.split("/")
RECURSIVE SplitPath(_, _)
SplitPath(path, cur) ==
    IF path = <<>> THEN <<cur>>
    ELSE IF Head(path) = SLASH THEN <<cur>> \o SplitPath(Tail(path), <<>>)
    ELSE SplitPath(Tail(path), Append(cur, Head(path)))

\* "/".join(segments)
RECURSIVE JoinPath(_)
JoinPath(segments) ==
    IF segments = <<>> THEN <<>>
    ELSE IF Len(segments) = 1 THEN Head(segments)
    ELSE Head(segments) \o <<SLASH>> \o JoinPath(Tail(segments))

\* the loop of urljoin that resolves ".." segments
RECURSIVE ResolveDots(_, _)
ResolveDots(segments, resolved) ==
    IF segments = <<>> THEN resolved
    ELSE IF Head(segments) = <<DOTDOT>>
    THEN ResolveDots(Tail(segments),
                     IF resolved = <<>> THEN resolved
                     ELSE SubSeq(resolved, 1, Len(resolved) - 1))
    ELSE ResolveDots(Tail(segments), Append(resolved, Head(segments)))

\* segments[1:-1] = filter(None, segments[1:-1])
DropEmptyInner(segments) ==
    IF Len(segments) <= 2 THEN segments
    ELSE <<Head(segments)>>
         \o SelectSeq(SubSeq(segments, 2, Len(segments) - 1), LAMBDA g : g # <<>>)
         \o <<segments[Len(segments)]>>

urljoin(base, url) ==
    IF base = <<>> THEN url
    ELSE IF url = <<>> THEN base
    ELSE LET b == urlparse(base, "")
             u == urlparse(url, b.scheme)
         IN IF u.scheme # b.scheme \/ u.scheme \notin uses_relative THEN url
            ELSE IF u.netloc # <<>> THEN urlunparse(u.scheme, u.netloc, u.path)
            ELSE IF u.path = <<>> THEN urlunparse(u.scheme, b.netloc, b.path)
            ELSE LET bsplit == SplitPath(b.path, <<>>)
                     base_parts == IF bsplit[Len(bsplit)] # <<>>
                                   THEN SubSeq(bsplit, 1, Len(bsplit) - 1)
                                   ELSE bsplit
                     usplit == SplitPath(u.path, <<>>)
                     segments == IF Head(u.path) = SLASH THEN usplit
                                 ELSE DropEmptyInner(base_parts \o usplit)
                     resolved == ResolveDots(segments, <<>>)
                                 \o (IF segments[Len(segments)] = <<DOTDOT>>
                                     THEN <<<<>>>> ELSE <<>>)
                     joined == JoinPath(resolved)
                 IN urlunparse(u.scheme, b.netloc,
                               IF joined = <<>> THEN <<SLASH>> ELSE joined)

domain_from_url(url) == urlparse(url, "").netloc

IsAbsoluteUrl(url) == url # <<>> /\ Head(url) \in Schemes

\* ---------------------------------------------------------------------
\* Dates
\* ---------------------------------------------------------------------
IsLeap(y) == (y % 4 = 0 /\ y % 100 # 0) \/ y % 400 = 0

DaysInMonth(y, m) ==
    IF m = 2 THEN (IF IsLeap(y) THEN 29 ELSE 28)
    ELSE IF m \in {4, 6, 9, 11} THEN 30 ELSE 31

\* dt.datetime(*value[:6]) raises ValueError for a date that does not exist
ValidDate(v) ==
    /\ v[1] \in 1..9999
    /\ v[2] \in 1..12
    /\ v[3] \in 1..DaysInMonth(v[1], v[2])

TwoDigits(n) == IF n < 10 THEN <<"0", ToString(n)>> ELSE <<ToString(n)>>

\* date.isoformat()
isoformat(v) ==
    <<ToString(v[1]), "-">> \o TwoDigits(v[2]) \o <<"-">> \o TwoDigits(v[3])

today_iso(day) == isoformat(day)

\* ---------------------------------------------------------------------
\* str.strip()
\* ---------------------------------------------------------------------
IsSpace(c) == c \in {SPACE, CR, LF}

RECURSIVE LStrip(_)
LStrip(s) == IF s # <<>> /\ IsSpace(Head(s)) THEN LStrip(Tail(s)) ELSE s

RECURSIVE RStrip(_)
RStrip(s) ==
    IF s # <<>> /\ IsSpace(s[Len(s)]) THEN RStrip(SubSeq(s, 1, Len(s) - 1)) ELSE s

Strip(s) == RStrip(LStrip(s))

\* ---------------------------------------------------------------------
\* Fetching
\* ---------------------------------------------------------------------
MAX_ITEMS_PER_SOURCE == 50

None == [none |-> TRUE]

\* what requests.get does: it raises (timeout, connection error, bad URL),
\* or it returns a response with a status and a body
RequestFailed(outcome) == outcome.exception \/ outcome.status >= 400

fetch_url_any_status(outcome) ==
    IF outcome.exception THEN None ELSE outcome.body

\* resp.raise_for_status() raises for a 4xx or 5xx status; every exception
\* is caught and turned into None
fetch_url(outcome) ==
    IF outcome.exception \/ outcome.status >= 400 THEN None ELSE outcome.body

\* ---------------------------------------------------------------------
\* RSS / Atom handling
\* ---------------------------------------------------------------------
\* the first of published_parsed, updated_parsed, created_parsed that is set
\* and converts to a date; today otherwise.  An unset attribute is <<>>.
EntryDate(entry, day) ==
    IF entry.published_parsed # <<>> /\ ValidDate(entry.published_parsed)
    THEN isoformat(entry.published_parsed)
    ELSE IF entry.updated_parsed # <<>> /\ ValidDate(entry.updated_parsed)
    THEN isoformat(entry.updated_parsed)
    ELSE IF entry.created_parsed # <<>> /\ ValidDate(entry.created_parsed)
    THEN isoformat(entry.created_parsed)
    ELSE today_iso(day)

\* an entry is skipped when its title or its link is empty after strip()
HasTitleAndLink(entry) == Strip(entry.title) # <<>> /\ Strip(entry.link) # <<>>

RssRecords(parsed_entries, source_domain, day) ==
    LET kept == SelectSeq(parsed_entries, HasTitleAndLink)
    IN [i \in 1..Len(kept) |->
           <<EntryDate(kept[i], day), source_domain,
             Strip(kept[i].title), Strip(kept[i].link)>>] \o <<>>

harvest_rss_uncapped(url, resp, day) ==
    IF resp.feed = <<>> THEN <<>>
    ELSE RssRecords(resp.feed, domain_from_url(url), day)

harvest_rss(url, resp, day) ==
    IF resp.feed = <<>> THEN <<>>
    ELSE RssRecords(Take(resp.feed, MAX_ITEMS_PER_SOURCE), domain_from_url(url), day)

\* ---------------------------------------------------------------------
\* Generic HTML scraping
\* ---------------------------------------------------------------------
\* the (title, href) of the first <a href> of each element that has one,
\* when neither is empty
IsCandidate(el) == el.hasA /\ el.title # <<>> /\ el.href # <<>>

Candidates(elements) ==
    LET kept == SelectSeq(elements, IsCandidate)
    IN [i \in 1..Len(kept) |-> <<kept[i].title, kept[i].href>>] \o <<>>

\* the (title, link) keys that were not seen earlier in the sequence
FirstOccurrences(keys) ==
    LET marked == [i \in 1..Len(keys) |->
                      [key |-> keys[i],
                       seen |-> \E j \in 1..(i - 1) : keys[j] = keys[i]]]
        kept == SelectSeq(marked, LAMBDA m : ~m.seen)
    IN [i \in 1..Len(kept) |-> kept[i].key] \o <<>>

\* the loop over the candidates: links are joined to the page's URL and a
\* (title, link) seen earlier in the loop is skipped
HtmlRecords(candidates, url, source_domain, day) ==
    LET kept == FirstOccurrences(
                    [i \in 1..Len(candidates) |->
                        <<candidates[i][1], urljoin(url, candidates[i][2])>>] \o <<>>)
    IN [i \in 1..Len(kept) |->
           <<today_iso(day), source_domain, kept[i][1], kept[i][2]>>] \o <<>>

harvest_html(url, resp, day) ==
    LET articles == Candidates(resp.articles)
        candidates == IF articles # <<>> THEN articles
                      ELSE Candidates(resp.h1) \o Candidates(resp.h2)
                           \o Candidates(resp.h3)
    IN HtmlRecords(Take(candidates, MAX_ITEMS_PER_SOURCE), url, domain_from_url(url), day)

\* ---------------------------------------------------------------------
\* Core harvest logic
\* ---------------------------------------------------------------------
\* kind is the console line the call prints: WARN (from fetch_url), RSS or HTML
harvest_one_url_on_feed(url, resp, day) ==
    IF resp = None THEN [entries |-> <<>>, kind |-> "WARN"]
    ELSE IF resp.feed # <<>>
    THEN [entries |-> harvest_rss(url, resp, day), kind |-> "RSS"]
    ELSE [entries |-> harvest_html(url, resp, day), kind |-> "HTML"]

harvest_one_url(url, resp, day) ==
    IF resp = None THEN [entries |-> <<>>, kind |-> "WARN"]
    ELSE LET rss_entries == harvest_rss(url, resp, day)
         IN IF rss_entries # <<>>
            THEN [entries |-> rss_entries, kind |-> "RSS"]
            ELSE [entries |-> harvest_html(url, resp, day), kind |-> "HTML"]

StartsWithHttp(line) ==
    Len(line) >= 3 /\ line[1] \in {HTTP, HTTPS} /\ line[2] = SLASH /\ line[3] = SLASH

RECURSIVE read_outlet_urls(_)
read_outlet_urls(lines) ==
    IF lines = <<>> THEN <<>>
    ELSE LET line == Strip(Head(lines))
         IN (IF line = <<>> \/ Head(line) = "#" THEN <<>>
             ELSE IF StartsWithHttp(line) THEN <<line>>
             ELSE <<>>)
            \o read_outlet_urls(Tail(lines))

\* the case main takes
MainCaseNoDryRun(a) ==
    IF a.test_url # <<>> THEN "test_url" ELSE "normal"

MainCase(a) ==
    IF a.test_url # <<>> THEN "test_url"
    ELSE IF a.dry_run THEN "dry_run"
    ELSE "normal"

\* ---------------------------------------------------------------------
\* The inputs of a run: command lines, outlet files, and what the outlets
\* answer
\* ---------------------------------------------------------------------
U1 == <<HTTP, SLASH, SLASH, "h", SLASH, "feed">>
U2 == <<HTTPS, SLASH, SLASH, "k", SLASH, "news", SLASH>>
BadUrl == <<"h", SLASH, "x">>

Unset == <<>>

Entry(title, link, published, updated, created) ==
    [title |-> title, link |-> link, published_parsed |-> published,
     updated_parsed |-> updated, created_parsed |-> created]

eAbs == Entry(<<"a">>, <<HTTP, SLASH, SLASH, "h", SLASH, "s1">>, Unset, Unset, Unset)
eRel == Entry(<<"b", SPACE>>, <<SLASH, "s2">>, <<2024, 2, 29>>, Unset, Unset)
eNoTitle == Entry(<<SPACE>>, <<HTTP, SLASH, SLASH, "h", SLASH, "s3">>, Unset, Unset, Unset)
eNoLink == Entry(<<"c">>, <<>>, Unset, Unset, Unset)
eBadDate == Entry(<<"q", QUOTE>>, <<SPACE, HTTPS, SLASH, SLASH, "k", SLASH, "s4">>,
                  <<2024, 13, 1>>, <<2023, 2, 29>>, <<2024, 1, 5>>)
eNumbered(i) == Entry(<<"n", ToString(i)>>, U1 \o <<SLASH, ToString(i)>>, Unset, Unset, Unset)

Element(hasA, title, href) == [hasA |-> hasA, title |-> title, href |-> href]

elRel == Element(TRUE, <<"t1">>, <<"s5">>)
elRoot == Element(TRUE, <<"t1">>, <<SLASH, "news", SLASH, "s5">>)
elAbs == Element(TRUE, <<"t2">>, <<HTTPS, SLASH, SLASH, "k", SLASH, "s6">>)
elUp == Element(TRUE, <<"t3", COMMA>>, <<DOTDOT, SLASH, "s7">>)
elNoA == Element(FALSE, <<>>, <<>>)
elNoTitle == Element(TRUE, <<>>, <<"s8">>)
elNumbered(i) == Element(TRUE, <<"t">>, <<ToString(i)>>)

Body(feed, articles, h1, h2, h3) ==
    [feed |-> feed, articles |-> articles, h1 |-> h1, h2 |-> h2, h3 |-> h3]

LongLen == MAX_ITEMS_PER_SOURCE + SurplusItems

\* what the feed outlet U1 may answer
FeedBodies ==
    { Body(<<eRel, eAbs>>, <<>>, <<>>, <<>>, <<>>),
      Body(<<eNoTitle, eNoLink>>, <<elRel, elNoA, elRoot>>, <<elAbs>>, <<>>, <<>>),
      Body(<<eBadDate, eAbs, eAbs>>, <<elRel, elAbs>>, <<>>, <<>>, <<>>),
      Body([i \in 1..LongLen |-> eNumbered(i)], <<>>, <<>>, <<>>, <<>>) }

\* what the news page U2 may answer
PageBodies ==
    { Body(<<>>, <<elRel, elNoA, elRoot, elAbs>>, <<elUp>>, <<>>, <<>>),
      Body(<<>>, <<elNoA, elNoTitle>>, <<elUp>>, <<elNoTitle, elAbs>>, <<elRel>>),
      Body(<<>>, <<>>, <<>>, <<>>, <<>>),
      Body(<<>>, <<>>, <<>>, [i \in 1..LongLen |-> elNumbered(i)], <<>>) }

ErrorPage == Body(<<>>, <<>>, <<elRel>>, <<>>, <<>>)

Raised == [exception |-> TRUE, status |-> 0, body |-> None]

Answer(status, body) == [exception |-> FALSE, status |-> status, body |-> body]

\* requests.get raises for a URL that is not http(s); an outlet may time out,
\* answer an error status, or answer one of its bodies
Outcomes(url) ==
    IF ~StartsWithHttp(url) THEN {Raised}
    ELSE IF url = U1
    THEN {Raised, Answer(404, ErrorPage)} \cup { Answer(200, b) : b \in FeedBodies }
    ELSE {Raised} \cup { Answer(200, b) : b \in PageBodies }

OutletLines ==
    { <<"#", SPACE, "x">>,
      <<LF>>,
      <<"ftp:", SLASH, SLASH, "h", LF>>,
      <<SPACE>> \o U1 \o <<LF>>,
      U2 \o <<CR, LF>> }

OutletFiles == SeqsUpTo(OutletLines, MaxOutletLines)

Args == [test_url : {<<>>, U1, U2, BadUrl}, dry_run : BOOLEAN]

Days == {<<2024, 3, 9>>}

NoArgs == [test_url |-> <<>>, dry_run |-> FALSE]

InitialLogs ==
    { NoFile,
      append_entries_to_csv(NoFile,
          <<<<isoformat(<<2024, 3, 8>>), <<"h">>, <<"a">>, <<"old">>>>>>).file }

\* ---------------------------------------------------------------------
\* main
\* ---------------------------------------------------------------------
Visit(url, outcome, r) ==
    [url |-> url, outcome |-> outcome, kind |-> r.kind, entries |-> r.entries]

\* args = parser.parse_args()
Start ==
    /\ pc = "start"
    /\ \E a \in Args, d \in Days :
        /\ args' = a
        /\ today' = d
        /\ pc' = IF MainCase(a) = "test_url" THEN "test_url" ELSE "read_outlets"
    /\ UNCHANGED <<csvFile, calls, log0, urls, idx, all_entries, visits>>

\* Case 1: test a single URL
TestUrl ==
    /\ pc = "test_url"
    /\ \E o \in Outcomes(args.test_url) :
        LET r == harvest_one_url(args.test_url, fetch_url(o), today)
        IN /\ all_entries' = r.entries
           /\ visits' = Append(visits, Visit(args.test_url, o, r))
    /\ pc' = "done"
    /\ UNCHANGED <<csvFile, calls, log0, args, today, urls, idx>>

\* harvest_all_outlets: urls = read_outlet_urls(OUTLETS_FILE)
ReadOutlets ==
    /\ pc = "read_outlets"
    /\ \E lines \in OutletFiles : urls' = read_outlet_urls(lines)
    /\ idx' = 1
    /\ all_entries' = <<>>
    /\ pc' = "harvest"
    /\ UNCHANGED <<csvFile, calls, log0, args, today, visits>>

\* OUTLETS_FILE does not exist: path.open raises and the program ends
OutletsFileMissing ==
    /\ pc = "read_outlets"
    /\ pc' = "crashed"
    /\ UNCHANGED <<csvFile, calls, log0, args, today, urls, idx, all_entries, visits>>

\* one iteration of the loop of harvest_all_outlets
HarvestOutlet ==
    /\ pc = "harvest"
    /\ idx <= Len(urls)
    /\ \E o \in Outcomes(urls[idx]) :
        LET r == harvest_one_url(urls[idx], fetch_url(o), today)
        IN /\ all_entries' = all_entries \o r.entries
           /\ visits' = Append(visits, Visit(urls[idx], o, r))
    /\ idx' = idx + 1
    /\ UNCHANGED <<csvFile, calls, log0, pc, args, today, urls>>

\* Case 2: dry run on all outlets
DryRunDone ==
    /\ pc = "harvest"
    /\ idx > Len(urls)
    /\ MainCase(args) = "dry_run"
    /\ pc' = "done"
    /\ UNCHANGED <<csvFile, calls, log0, args, today, urls, idx, all_entries, visits>>

\* Case 3: normal daily run
WriteCsv ==
    /\ pc = "harvest"
    /\ idx > Len(urls)
    /\ MainCase(args) = "normal"
    /\ LET r == append_entries_to_csv(csvFile, all_entries)
       IN /\ csvFile' = r.file
          /\ calls' = Append(calls, [entries |-> all_entries, before |-> csvFile,
                                     after |-> r.file, new_count |-> r.new_count])
    /\ pc' = "done"
    /\ UNCHANGED <<log0, args, today, urls, idx, all_entries, visits>>

Init ==
    /\ csvFile \in InitialLogs
    /\ log0 = csvFile
    /\ calls = <<>>
    /\ pc = "start"
    /\ args = NoArgs
    /\ today \in Days
    /\ urls = <<>>
    /\ idx = 1
    /\ all_entries = <<>>
    /\ visits = <<>>

Next ==
    \/ Start
    \/ TestUrl
    \/ ReadOutlets
    \/ OutletsFileMissing
    \/ HarvestOutlet
    \/ DryRunDone
    \/ WriteCsv

Spec == Init /\ [][Next]_vars

\* ---------------------------------------------------------------------
\* Specification of the writer alone: calls of append_entries_to_csv with
\* arbitrary record lists against the log the earlier calls left behind
\* ---------------------------------------------------------------------
CsvRecords ==
    { <<<<"d">>, <<"m">>, <<"a">>, <<"l">>>>,
      <<<<"d">>, <<"m">>, <<"a", QUOTE, COMMA, "b", QUOTE>>, <<"l">>>>,
      <<<<"d">>, <<"m">>, <<QUOTE, LF, "a">>, <<"l", COMMA, "x">>>> }

EntryLists == SeqsUpTo(CsvRecords, MaxEntries)

AppendCall(entries) ==
    /\ Len(calls) < MaxCalls
    /\ LET r == append_entries_to_csv(csvFile, entries)
       IN /\ csvFile' = r.file
          /\ calls' = Append(calls, [entries |-> entries, before |-> csvFile,
                                     after |-> r.file, new_count |-> r.new_count])
    /\ UNCHANGED mainVars

InitCsv ==
    /\ csvFile = NoFile
    /\ log0 = csvFile
    /\ calls = <<>>
    /\ pc = "start"
    /\ args = NoArgs
    /\ today \in Days
    /\ urls = <<>>
    /\ idx = 1
    /\ all_entries = <<>>
    /\ visits = <<>>

NextCsv == \E entries \in EntryLists : AppendCall(entries)

SpecCsv == InitCsv /\ [][NextCsv]_vars

\* ---------------------------------------------------------------------
\* Properties of the writer (checked under SpecCsv)
\* ---------------------------------------------------------------------
HasQuote(e) == Contains(e[3], QUOTE)

\* what a call added to the file, read back as rows
NewRows(c) == ParseCsv(Drop(c.after.content, Len(c.before.content)))

RECURSIVE IsSubseq(_, _)
IsSubseq(a, b) ==
    IF a = <<>> THEN TRUE
    ELSE IF b = <<>> THEN FALSE
    ELSE IF Head(a) = Head(b) THEN IsSubseq(Tail(a), Tail(b))
    ELSE IsSubseq(a, Tail(b))

NoRepeats(rows) ==
    \A i \in 1..Len(rows) : \A j \in 1..Len(rows) : i # j => rows[i] # rows[j]

\* C1: a second call with the same records, against the log the first call
\* left behind, writes no row and returns 0
RerunAddsNothing ==
    \A i \in 2..Len(calls) :
        calls[i].entries = calls[i - 1].entries
        => calls[i].new_count = 0 /\ calls[i].after = calls[i].before

\* C2: the persisted log never holds two rows with the same
\* (date, domain, title, link)
LogRowsUnique == NoRepeats(ParseCsv(csvFile.content))

\* C3: a record whose title holds double quotes is read back from the log
\* field for field as it was given
QuotedTitleRoundTrips ==
    \A i \in 1..Len(calls) :
        LET rows == NewRows(calls[i])
        IN \A k \in 1..Len(calls[i].entries) :
               HasQuote(calls[i].entries[k])
               => \E n \in 1..Len(rows) : rows[n] = calls[i].entries[k]

QuotedTitleWritten ==
    \E i \in 1..Len(calls) :
        /\ calls[i].new_count > 0
        /\ \E k \in 1..Len(calls[i].entries) : HasQuote(calls[i].entries[k])

\* C9: a call keeps the prior content of the log as a prefix of the new
\* content and adds the new rows after it, in the order of the records
LogPrefixKept ==
    \A i \in 1..Len(calls) :
        /\ IsPrefix(calls[i].before.content, calls[i].after.content)
        /\ IsSubseq(NewRows(calls[i]), calls[i].entries)
        /\ i > 1 => calls[i].before = calls[i - 1].after

AppendedAfterPriorRows ==
    \E i \in 1..Len(calls) :
        /\ calls[i].before.content # <<>>
        /\ calls[i].new_count = 2
        /\ calls[i].entries[1] # calls[i].entries[2]

\* C10: a record that occurs more than once in the input of one call is
\* written at most once by that call, and the returned count is the number
\* of rows written
WrittenOncePerCall ==
    \A i \in 1..Len(calls) :
        LET rows == NewRows(calls[i])
        IN NoRepeats(rows) /\ calls[i].new_count = Len(rows)

RepeatedRecordInCall ==
    \E i \in 1..Len(calls) :
        /\ Len(calls[i].entries) = 2
        /\ calls[i].entries[1] = calls[i].entries[2]
        /\ calls[i].new_count = 1

\* ---------------------------------------------------------------------
\* Properties of the harvest and of main (checked under Spec)
\* ---------------------------------------------------------------------
Fetched(v) == ~RequestFailed(v.outcome)

\* the entries of the parsed feed that harvest_rss can use
Usable(feed) ==
    { i \in 1..Min(MAX_ITEMS_PER_SOURCE, Len(feed)) :
        Strip(feed[i].title) # <<>> /\ Strip(feed[i].link) # <<>> }

\* what a run over the given visits alone returns
RECURSIVE HarvestOf(_)
HarvestOf(vs) ==
    IF vs = <<>> THEN <<>>
    ELSE harvest_one_url(Head(vs).url, Head(vs).outcome.body, today).entries
         \o HarvestOf(Tail(vs))

\* C4: every record harvest_one_url returns carries an absolute link, on the
\* feed path and on the HTML path
LinksAbsolute ==
    \A i \in 1..Len(visits) :
        \A k \in 1..Len(visits[i].entries) : IsAbsoluteUrl(visits[i].entries[k][4])

\* C5: with --test-url or --dry-run the log is left as it was and
\* append_entries_to_csv is not called
WritesSuppressed ==
    (args.test_url # <<>> \/ args.dry_run) => csvFile = log0 /\ calls = <<>>

DryRunHarvested ==
    /\ pc = "done"
    /\ args.test_url = <<>>
    /\ args.dry_run
    /\ all_entries # <<>>
    /\ csvFile.exists

\* C6: a run over all outlets visits every outlet once and in order, a failed
\* fetch contributes no record, and the result is what the outlets that
\* answered would give on their own
FailedFetchesIsolated ==
    (pc = "done" /\ args.test_url = <<>>) =>
        /\ Len(visits) = Len(urls)
        /\ \A i \in 1..Len(visits) : visits[i].url = urls[i]
        /\ \A i \in 1..Len(visits) :
               RequestFailed(visits[i].outcome) => visits[i].entries = <<>>
        /\ all_entries = HarvestOf(SelectSeq(visits, Fetched))

FailedThenFetched ==
    /\ pc = "done"
    /\ args.test_url = <<>>
    /\ \E i \in 1..Len(visits) : \E j \in 1..Len(visits) :
        /\ i < j
        /\ RequestFailed(visits[i].outcome)
        /\ visits[j].entries # <<>>

\* C7 (as stated): the HTML extractor runs exactly when the parsed feed has
\* no entry
HtmlIffFeedEmpty ==
    \A i \in 1..Len(visits) :
        Fetched(visits[i])
        => (visits[i].kind = "HTML" <=> visits[i].outcome.body.feed = <<>>)

\* C7 (amended): the HTML extractor runs exactly when the feed gives no
\* record, that is when none of its first MAX_ITEMS_PER_SOURCE entries has
\* both a title and a link; otherwise the result is the feed's records only
HtmlIffNoFeedRecord ==
    \A i \in 1..Len(visits) :
        Fetched(visits[i]) =>
            LET v == visits[i]
                feed == v.outcome.body.feed
            IN /\ v.kind = "HTML" <=> Usable(feed) = {}
               /\ v.kind = "RSS" =>
                    /\ Len(v.entries) = Cardinality(Usable(feed))
                    /\ \A k \in 1..Len(v.entries) :
                          \E n \in 1..Min(MAX_ITEMS_PER_SOURCE, Len(feed)) :
                              /\ v.entries[k][3] = Strip(feed[n].title)
                              /\ v.entries[k][4] = Strip(feed[n].link)

FallbackOnUnusableFeed ==
    \E i \in 1..Len(visits) :
        /\ Fetched(visits[i])
        /\ visits[i].outcome.body.feed # <<>>
        /\ visits[i].kind = "HTML"
        /\ visits[i].entries # <<>>

\* C8: harvest_one_url returns at most MAX_ITEMS_PER_SOURCE records
PerSourceCap ==
    \A i \in 1..Len(visits) : Len(visits[i].entries) <= MAX_ITEMS_PER_SOURCE

CapReachedOnBothPaths ==
    \E i \in 1..Len(visits) : \E j \in 1..Len(visits) :
        /\ visits[i].kind = "RSS"
        /\ Len(visits[i].outcome.body.feed) > MAX_ITEMS_PER_SOURCE
        /\ Len(visits[i].entries) = MAX_ITEMS_PER_SOURCE
        /\ visits[j].kind = "HTML"
        /\ Len(visits[j].outcome.body.h2) > MAX_ITEMS_PER_SOURCE
        /\ Len(visits[j].entries) = MAX_ITEMS_PER_SOURCE

====
